---- MODULE Spec2Model ----
(***************************************************************************)
(* InterviewForge: the run-history store (memory.py MemoryBank), the       *)
(* checkpointed interview session (interviewforge.py) and the pipeline     *)
(* orchestrator (pipeline.py), as state machines.                          *)
(***************************************************************************)
EXTENDS Integers, Sequences, FiniteSets, TLC

\* ---------------------------------------------------------------- bounds
\* save_run calls one MemoryBank makes
MaxSaves == 2
\* questions over all rounds of one interview
MaxQuestions == 3
\* answers and checkpoints handed to a resumed run
MaxResume == 2

\* The two runs (processes), each owning one Orchestrator and so one MemoryBank
Banks == {1, 2}

VARIABLES
    fileExists,   \* MEMORY_FILE exists on disk
    fileText,     \* its content, a sequence of tokens
    data,         \* data[b]: MemoryBank._data of bank b
    bpc,          \* bpc[b]: where bank b's process stands
    woff,         \* woff[b]: tokens of the pending write_text already on disk
    nsaves,       \* nsaves[b]: save_run calls of bank b that returned
    saved,        \* saved[b]: the records those calls were given, in call order
    store0,       \* the store file before any bank was built
    arg           \* arg[b]: the record of bank b's save_run call, once stamped

VARIABLES
    spc,              \* where OrchestratorAgent.run stands
    questions,        \* session.questions
    answers,          \* session.answers
    current_q_index,  \* session.current_q_index
    checkpoints,      \* session.checkpoints
    answersRef,       \* the restored checkpoint whose answers list session.answers is (0: none)
    rounds,           \* the rounds generate_rounds returned
    interactive,      \* InterviewAgent.interactive
    qa_pairs,         \* conduct's qa_pairs
    seed,             \* what _restore_checkpoint was given
    tasks             \* tasks[k]: the gen_round(k) sub-task of generate_rounds

sessionVars == <<spc, questions, answers, current_q_index, checkpoints, answersRef,
                 rounds, interactive, qa_pairs, seed, tasks>>

bankVars == <<fileExists, fileText, data, bpc, woff, nsaves, saved, store0, arg>>

VARIABLES
    pc,             \* where Orchestrator.run stands
    err,            \* the exception that ended run
    profile,        \* run's profile
    run_rounds,     \* run's rounds
    ridx,           \* the round the interview loop is at
    transcript,     \* run's transcript
    critiques,      \* run's critiques
    cidx,           \* the transcript entry the critique loop is at
    study_obj,      \* run's study_obj
    email_text,     \* run's email_text
    p_interactive,  \* InterviewAgent.interactive
    result,         \* the RunSummary run returned
    log,            \* the stage calls run has made, in order
    heard           \* what llm_call returned to each stage's agent

pipeVars == <<pc, err, profile, run_rounds, ridx, transcript, critiques, cidx,
              study_obj, email_text, p_interactive, result, log, heard>>

VARIABLES
    apc,            \* where the agent call stands
    agent,          \* the agent that is called
    words,          \* the stub words in the lower-cased prompt
    outcome,        \* what the capability behind llm_call did
    llm_resp,       \* what llm_call returned to the agent
    agent_out       \* what the agent returned

agentVars == <<apc, agent, words, outcome, llm_resp, agent_out>>

\* what the store's steps leave alone, and what the session's do
notBank == <<sessionVars, pipeVars, agentVars>>
notSession == <<bankVars, pipeVars, agentVars>>
notAgents == <<bankVars, sessionVars, pipeVars>>

vars == <<bankVars, sessionVars, pipeVars, agentVars>>

\* ------------------------------------------------------- Python values
PyNone == [t |-> "None"]
JSONDecodeError == [t |-> "JSONDecodeError"]
\* {"runs": [...]}
RunsDict(rs) == [t |-> "dict", keys |-> {"runs"}, runs |-> rs]
\* {}
EmptyDict == [t |-> "dict", keys |-> {}]
\* []
EmptyList == [t |-> "list", items |-> <<>>]

\* ------------------------------------------------- json.dumps / json.loads
P(s) == [p |-> s]
Body(r) == [body |-> r]

RECURSIVE DumpRuns(_)
DumpRuns(rs) ==
    IF rs = <<>> THEN <<>>
    ELSE <<P("{"), Body(Head(rs)), P("}")>> \o DumpRuns(Tail(rs))

\* json.dumps(self._data, indent=2)
JsonDumps(d) ==
    IF d.t = "list" THEN <<P("["), P("]")>>
    ELSE IF "runs" \in d.keys
         THEN <<P("{"), P("runs"), P("[")>> \o DumpRuns(d.runs) \o <<P("]"), P("}")>>
         ELSE <<P("{"), P("}")>>

IsBody(tok) == DOMAIN tok = {"body"}

\* a token sequence read as a list of objects: whether it is one, and its records
RECURSIVE ParseRuns(_)
ParseRuns(toks) ==
    IF toks = <<>> THEN [ok |-> TRUE, runs |-> <<>>]
    ELSE IF Len(toks) < 3 THEN [ok |-> FALSE, runs |-> <<>>]
    ELSE IF toks[1] # P("{") \/ ~IsBody(toks[2]) \/ toks[3] # P("}")
         THEN [ok |-> FALSE, runs |-> <<>>]
    ELSE LET rest == ParseRuns(SubSeq(toks, 4, Len(toks)))
         IN [ok |-> rest.ok, runs |-> <<toks[2].body>> \o rest.runs]

\* json.loads(text): the value, or JSONDecodeError
JsonLoads(toks) ==
    IF toks = <<P("{"), P("}")>> THEN EmptyDict
    ELSE IF toks = <<P("["), P("]")>> THEN EmptyList
    ELSE IF Len(toks) >= 5
            /\ SubSeq(toks, 1, 3) = <<P("{"), P("runs"), P("[")>>
            /\ SubSeq(toks, Len(toks) - 1, Len(toks)) = <<P("]"), P("}")>>
         THEN LET rs == ParseRuns(SubSeq(toks, 4, Len(toks) - 2))
              IN IF rs.ok THEN RunsDict(rs.runs) ELSE JSONDecodeError
    ELSE JSONDecodeError

\* ------------------------------------------------------ memory.py MemoryBank
\* MemoryBank.__init__: _data after construction over the store file
MemoryBankInit(exists, text) ==
    IF exists
    THEN IF JsonLoads(text) = JSONDecodeError THEN RunsDict(<<>>) ELSE JsonLoads(text)
    ELSE RunsDict(<<>>)

\* MemoryBank.list_runs: self._data.get("runs", []); a list has no .get
ListRuns(d) ==
    IF d.t = "list" THEN [t |-> "AttributeError"]
    ELSE IF "runs" \in d.keys THEN d.runs ELSE <<>>

\* self._data["runs"] can be appended to
HasRuns(d) == d.t = "dict" /\ "runs" \in d.keys

\* a save_run that puts the new record first
AppendRunFront(d, run) == RunsDict(<<run>> \o d.runs)

\* self._data["runs"].append(run)
AppendRun(d, run) == RunsDict(Append(d.runs, run))

\* run["timestamp"] = time.time(): the record gains the field
Stamp(run) ==
    [f \in DOMAIN run \cup {"timestamp"} |->
        IF f = "timestamp" THEN "time" ELSE run[f]]

\* the record bank b hands to its next save_run
NextRecord(b) == [run |-> b, n |-> nsaves[b] + 1]

\* a file write at offset off of the tokens chunk over the current content
NUL == P("NUL")
WriteAt(text, off, chunk) ==
    LET end == off + Len(chunk)
        n == IF Len(text) > end THEN Len(text) ELSE end
    IN [i \in 1..n |->
          IF i > off /\ i <= end THEN chunk[i - off]
          ELSE IF i <= Len(text) THEN text[i] ELSE NUL]

\* what the store file may hold when the first bank is built
PriorRecord == [run |-> 0, n |-> 1, timestamp |-> "time"]
InitialTexts ==
    {JsonDumps(RunsDict(<<>>)), JsonDumps(RunsDict(<<PriorRecord>>))}
    \cup {<<>>, <<P("{"), P("runs"), P("[")>>, JsonDumps(EmptyDict), JsonDumps(EmptyList)}

BankInit ==
    /\ fileExists \in BOOLEAN
    /\ fileText \in (IF fileExists THEN InitialTexts ELSE {<<>>})
    /\ data = [b \in Banks |-> PyNone]
    /\ bpc = [b \in Banks |-> "unborn"]
    /\ woff = [b \in Banks |-> 0]
    /\ nsaves = [b \in Banks |-> 0]
    /\ saved = [b \in Banks |-> <<>>]
    /\ store0 = [exists |-> fileExists, text |-> fileText]
    /\ arg = [b \in Banks |-> PyNone]

\* MemoryBank(): the bank loads the store file
ConstructCore(b) ==
    /\ bpc[b] = "unborn"
    /\ data' = [data EXCEPT ![b] = MemoryBankInit(fileExists, fileText)]
    /\ bpc' = [bpc EXCEPT ![b] = "idle"]
    /\ UNCHANGED <<fileExists, fileText, woff, nsaves, saved, store0, arg>>

\* save_run(run), lines 27-28: stamp the record and append it to the in-memory
\* list; a _data without a "runs" list raises (KeyError, TypeError)
SaveRunAppendCore(b, run) ==
    /\ bpc[b] = "idle"
    /\ arg' = [arg EXCEPT ![b] = Stamp(run)]
    /\ IF HasRuns(data[b])
       THEN /\ data' = [data EXCEPT ![b] = AppendRun(@, Stamp(run))]
            /\ bpc' = [bpc EXCEPT ![b] = "appended"]
       ELSE /\ bpc' = [bpc EXCEPT ![b] = "raised"]
            /\ UNCHANGED data
    /\ UNCHANGED <<fileExists, fileText, woff, nsaves, saved, store0>>

\* path.write_text: open(path, "w") creates or truncates the file
WriteOpenCore(b) ==
    /\ bpc[b] = "appended"
    /\ fileExists' = TRUE
    /\ fileText' = <<>>
    /\ woff' = [woff EXCEPT ![b] = 0]
    /\ bpc' = [bpc EXCEPT ![b] = "writing"]
    /\ UNCHANGED <<data, nsaves, saved, store0, arg>>

\* open() fails (permissions, missing directory): OSError out of save_run
WriteOpenFailCore(b) ==
    /\ bpc[b] = "appended"
    /\ bpc' = [bpc EXCEPT ![b] = "raised"]
    /\ UNCHANGED <<fileExists, fileText, data, woff, nsaves, saved, store0, arg>>

\* part of the text reaches the disk before the rest
WriteFlushCore(b) ==
    /\ bpc[b] = "writing"
    /\ woff[b] = 0
    /\ \E k \in 1..(Len(JsonDumps(data[b])) - 1) :
          /\ fileText' = WriteAt(fileText, 0, SubSeq(JsonDumps(data[b]), 1, k))
          /\ woff' = [woff EXCEPT ![b] = k]
    /\ UNCHANGED <<fileExists, data, bpc, nsaves, saved, store0, arg>>

\* the write fails part-way (disk full, I/O error): OSError out of save_run
WriteFailCore(b) ==
    /\ bpc[b] = "writing"
    /\ bpc' = [bpc EXCEPT ![b] = "write_raised"]
    /\ UNCHANGED <<fileExists, fileText, data, woff, nsaves, saved, store0, arg>>

\* the rest of the text is written, the file is closed and save_run returns
WriteCloseCore(b) ==
    /\ bpc[b] = "writing"
    /\ LET text == JsonDumps(data[b])
       IN fileText' = WriteAt(fileText, woff[b], SubSeq(text, woff[b] + 1, Len(text)))
    /\ woff' = [woff EXCEPT ![b] = 0]
    /\ bpc' = [bpc EXCEPT ![b] = "idle"]
    /\ nsaves' = [nsaves EXCEPT ![b] = @ + 1]
    /\ saved' = [saved EXCEPT ![b] = Append(@, arg[b])]
    /\ UNCHANGED <<fileExists, data, store0, arg>>

\* the steps of a process that only builds a bank and saves records to it
Construct(b) == ConstructCore(b) /\ UNCHANGED notBank
SaveRunAppend(b) ==
    /\ nsaves[b] < MaxSaves
    /\ SaveRunAppendCore(b, NextRecord(b))
    /\ UNCHANGED notBank
WriteOpen(b) == WriteOpenCore(b) /\ UNCHANGED notBank
WriteOpenFail(b) == WriteOpenFailCore(b) /\ UNCHANGED notBank
WriteFlush(b) == WriteFlushCore(b) /\ UNCHANGED notBank
WriteFail(b) == WriteFailCore(b) /\ UNCHANGED notBank
WriteClose(b) == WriteCloseCore(b) /\ UNCHANGED notBank

\* a store nobody has touched: the file is missing
BankIdle ==
    /\ fileExists = FALSE
    /\ fileText = <<>>
    /\ data = [b \in Banks |-> PyNone]
    /\ bpc = [b \in Banks |-> "unborn"]
    /\ woff = [b \in Banks |-> 0]
    /\ nsaves = [b \in Banks |-> 0]
    /\ saved = [b \in Banks |-> <<>>]
    /\ store0 = [exists |-> FALSE, text |-> <<>>]
    /\ arg = [b \in Banks |-> PyNone]

\* --------------------------------- interviewforge.py session and interview
\* one round: {"round": ..., "questions": [...]}; a question is its number
Round(name, qs) == [round |-> name, questions |-> qs]

\* the rounds generate_rounds may return: n questions in one round or in two
RoundsInputs ==
    {<<Round("r1", [i \in 1..n |-> i])>> : n \in 0..MaxQuestions}
    \cup {<<Round("r1", <<1>>), Round("r2", [i \in 1..(n - 1) |-> i + 1])>> :
             n \in 2..MaxQuestions}

\* conduct's two nested loops, in order: the (round, question) of every question
RECURSIVE Flatten(_)
Flatten(rs) ==
    IF rs = <<>> THEN <<>>
    ELSE [i \in 1..Len(Head(rs).questions) |->
             [round |-> Head(rs).round, question |-> Head(rs).questions[i]]]
         \o Flatten(Tail(rs))

\* q_obj = {"round": ..., "focus": ..., "question": q}
QObj(rq) == [round |-> rq.round, focus |-> "", question |-> rq.question]

\* the answer given to question q: typed at input(), or the canned demo answer
TypedAnswer(q) == [t |-> "typed", q |-> q]
DemoAnswer(q) == [t |-> "demo", q |-> q]
\* an answer given in the earlier, interrupted run
OldAnswer(q) == [t |-> "old", q |-> q]
OldAnswers(n) == [i \in 1..n |-> OldAnswer(i)]

\* InMemorySession.checkpoint: the snapshot, with copies of both lists
Snapshot(idx, qs, as) ==
    [time |-> "time", q_index |-> idx, questions |-> qs, answers |-> as]

\* the checkpoint the earlier run took after its i-th answer
OldQuestions(n) == [i \in 1..n |-> [round |-> "r1", focus |-> "", question |-> i]]
OldCheckpoint(i) == Snapshot(i, OldQuestions(i), OldAnswers(i))
OldCheckpoints(n) == [i \in 1..n |-> OldCheckpoint(i)]

\* resume_answers: None or a list; resume_checkpoints: None or a list;
\* alias: the restored checkpoint whose answers list resume_answers is (0: a list
\* of its own)
ResumeInputs ==
    {[index |-> k, answers |-> a, checkpoints |-> c, alias |-> j] :
        k \in 0..MaxResume,
        a \in {PyNone} \cup {[t |-> "list", items |-> OldAnswers(n)] : n \in 0..MaxResume},
        c \in {PyNone} \cup {[t |-> "list", items |-> OldCheckpoints(n)] : n \in 0..MaxResume},
        j \in 0..MaxResume}

\* alias j names a checkpoint of c that holds the very list a
AliasPossible(r) ==
    IF r.alias = 0 THEN TRUE
    ELSE IF r.answers = PyNone \/ r.checkpoints = PyNone THEN FALSE
    ELSE IF r.alias > Len(r.checkpoints.items) THEN FALSE
    ELSE r.checkpoints.items[r.alias].answers = r.answers.items

\* Python truth of a list or None
Truthy(x) == x # PyNone /\ x.items # <<>>

NoSeed == [index |-> 0, answers |-> PyNone, checkpoints |-> PyNone, alias |-> 0]

\* interviewforge.MemoryBank.__init__: _data over the store file; json.loads is
\* not guarded, so a text that does not parse gives JSONDecodeError
ForgeMemoryBankInit(exists, text) ==
    IF exists THEN JsonLoads(text) ELSE RunsDict(<<>>)

\* interviewforge.MemoryBank.list_runs: self._data["runs"]
ForgeListRuns(d) == IF HasRuns(d) THEN d.runs ELSE [t |-> "KeyError"]

\* the kinds of round generate_rounds issues a gen_round sub-task for
Kinds == {"behavioral", "technical", "system-design"}

\* no sub-task has been created
NoTasks == [k \in Kinds |-> "none"]

\* main is about to build its MemoryBank; the session OrchestratorAgent.__init__
\* will make is new
SessionInit ==
    /\ spc = "main"
    /\ questions = <<>>
    /\ answers = <<>>
    /\ current_q_index = 0
    /\ checkpoints = <<>>
    /\ answersRef = 0
    /\ rounds = <<>>
    /\ interactive \in BOOLEAN
    /\ qa_pairs = <<>>
    /\ seed = NoSeed
    /\ tasks = NoTasks

\* a session nobody runs
SessionIdle ==
    /\ spc = "off"
    /\ questions = <<>>
    /\ answers = <<>>
    /\ current_q_index = 0
    /\ checkpoints = <<>>
    /\ answersRef = 0
    /\ rounds = <<>>
    /\ interactive = FALSE
    /\ qa_pairs = <<>>
    /\ seed = NoSeed
    /\ tasks = NoTasks

\* mem = MemoryBank(); orch = OrchestratorAgent(mem): the bank loads the store
\* file, and a JSONDecodeError ends the program before there is a session
ForgeMemoryBank ==
    /\ spc = "main"
    /\ bpc[1] = "unborn"
    /\ IF ForgeMemoryBankInit(fileExists, fileText) = JSONDecodeError
       THEN /\ spc' = "raised"
            /\ bpc' = [bpc EXCEPT ![1] = "ctor_raised"]
            /\ UNCHANGED data
       ELSE /\ spc' = "start"
            /\ bpc' = [bpc EXCEPT ![1] = "idle"]
            /\ data' = [data EXCEPT ![1] = ForgeMemoryBankInit(fileExists, fileText)]
    /\ UNCHANGED <<questions, answers, current_q_index, checkpoints, answersRef,
                   rounds, interactive, qa_pairs, seed, tasks, fileExists, fileText, woff,
                   nsaves, saved, store0, arg, pipeVars, agentVars>>

\* run, step 0 with resume_mode and resume_path set: _restore_checkpoint
RestoreCheckpoint ==
    /\ spc = "start"
    /\ \E r \in ResumeInputs :
          /\ AliasPossible(r)
          /\ seed' = r
          /\ IF Truthy(r.answers)
             THEN /\ answers' = r.answers.items
                  /\ current_q_index' = r.index
             ELSE UNCHANGED <<answers, current_q_index>>
          /\ checkpoints' = IF Truthy(r.checkpoints) THEN r.checkpoints.items
                                                     ELSE checkpoints
          /\ answersRef' = IF Truthy(r.answers) /\ Truthy(r.checkpoints)
                           THEN r.alias ELSE 0
    /\ spc' = "restored"
    /\ UNCHANGED <<questions, rounds, interactive, qa_pairs, tasks, notSession>>

\* run, steps 1-2 up to the await of asyncio.gather(*tasks): the three
\* gen_round coroutines are created and awaited together
Gather ==
    /\ spc \in {"start", "restored"}
    /\ spc' = "gather"
    /\ tasks' = [k \in Kinds |-> "pending"]
    /\ UNCHANGED <<questions, answers, current_q_index, checkpoints, answersRef,
                   rounds, interactive, qa_pairs, seed, notSession>>

\* the event loop can run a sub-task: llm_call is synchronous, so a call that
\* never returns keeps the loop's only thread
LoopRuns == spc = "gather" /\ \A k \in Kinds : tasks[k] # "stalled"

\* gen_round(k) returns the text llm_call gave it
GenRoundReturn(k) ==
    /\ LoopRuns
    /\ tasks[k] = "pending"
    /\ tasks' = [tasks EXCEPT ![k] = "done"]
    /\ UNCHANGED <<spc, questions, answers, current_q_index, checkpoints, answersRef,
                   rounds, interactive, qa_pairs, seed, notSession>>

\* gen_round(k) raises: gather, called without return_exceptions, raises the
\* exception into generate_rounds; neither it, run nor main handles it, the
\* loop stops and the sub-tasks still pending are never resumed
GenRoundRaise(k) ==
    /\ LoopRuns
    /\ tasks[k] = "pending"
    /\ tasks' = [j \in Kinds |-> IF j = k THEN "raised"
                                 ELSE IF tasks[j] = "pending" THEN "abandoned"
                                 ELSE tasks[j]]
    /\ spc' = "raised"
    /\ UNCHANGED <<questions, answers, current_q_index, checkpoints, answersRef,
                   rounds, interactive, qa_pairs, seed, notSession>>

\* the capability never answers gen_round(k)'s llm_call; gather has no timeout
GenRoundStall(k) ==
    /\ LoopRuns
    /\ tasks[k] = "pending"
    /\ tasks' = [tasks EXCEPT ![k] = "stalled"]
    /\ UNCHANGED <<spc, questions, answers, current_q_index, checkpoints, answersRef,
                   rounds, interactive, qa_pairs, seed, notSession>>

\* gather returns once every sub-task has; run, steps 2-3: the rounds are
\* decoded from one more llm_call and the rubrics built
GenerateRounds ==
    /\ spc = "gather"
    /\ \A k \in Kinds : tasks[k] = "done"
    /\ rounds' \in RoundsInputs
    /\ spc' = "interview"
    /\ UNCHANGED <<questions, answers, current_q_index, checkpoints, answersRef,
                   interactive, qa_pairs, seed, tasks, notSession>>

\* session.answers.append(answer), seen through every name of that list: a
\* restored checkpoint that holds the same list object grows with it
AppendAnswer(cps, ref, answer) ==
    [i \in 1..Len(cps) |->
        IF i = ref THEN [cps[i] EXCEPT !.answers = Append(@, answer)] ELSE cps[i]]

\* conduct, one turn of the loops: ask the next question, record the answer,
\* advance the cursor and take a checkpoint
Ask ==
    /\ spc = "interview"
    /\ Len(qa_pairs) < Len(Flatten(rounds))
    /\ LET rq == Flatten(rounds)[Len(qa_pairs) + 1]
           answer == IF interactive THEN TypedAnswer(rq.question)
                                    ELSE DemoAnswer(rq.question)
       IN /\ questions' = Append(questions, QObj(rq))
          /\ answers' = Append(answers, answer)
          /\ current_q_index' = current_q_index + 1
          /\ checkpoints' =
                Append(AppendAnswer(checkpoints, answersRef, answer),
                       Snapshot(current_q_index', questions', answers'))
          /\ qa_pairs' = Append(qa_pairs,
                [question |-> rq.question, answer |-> answer, round |-> rq.round])
    /\ UNCHANGED <<spc, answersRef, rounds, interactive, seed, tasks, notSession>>

\* input() meets the end of standard input: EOFError out of conduct and run
AskEOF ==
    /\ spc = "interview"
    /\ interactive
    /\ Len(qa_pairs) < Len(Flatten(rounds))
    /\ spc' = "raised"
    /\ UNCHANGED <<questions, answers, current_q_index, checkpoints, answersRef,
                   rounds, interactive, qa_pairs, seed, tasks, notSession>>

\* conduct returns {"qa_pairs": ..., "session_checkpoints": ...}
ConductReturn ==
    /\ spc = "interview"
    /\ Len(qa_pairs) = Len(Flatten(rounds))
    /\ spc' = "conducted"
    /\ UNCHANGED <<questions, answers, current_q_index, checkpoints, answersRef,
                   rounds, interactive, qa_pairs, seed, tasks, notSession>>

\* a stage whose agent has not called llm_call yet
Unheard == [t |-> "unheard"]
NothingHeard ==
    [profile |-> Unheard, rounds |-> Unheard, critique |-> <<>>, study |-> Unheard,
     email |-> Unheard, asked |-> <<>>, critiqued |-> <<>>]

\* no pipeline runs
PipeIdle ==
    /\ pc = "off"
    /\ err = "none"
    /\ profile = PyNone
    /\ run_rounds = PyNone
    /\ ridx = 1
    /\ transcript = <<>>
    /\ critiques = <<>>
    /\ cidx = 1
    /\ study_obj = PyNone
    /\ email_text = PyNone
    /\ p_interactive = FALSE
    /\ result = PyNone
    /\ log = <<>>
    /\ heard = NothingHeard

\* no agent is called on its own
AgentIdle ==
    /\ apc = "off"
    /\ agent = "none"
    /\ words = {}
    /\ outcome = [kind |-> "none"]
    /\ llm_resp = PyNone
    /\ agent_out = PyNone

SessionNext ==
    \/ ForgeMemoryBank
    \/ RestoreCheckpoint
    \/ Gather
    \/ \E k \in Kinds : GenRoundReturn(k)
    \/ \E k \in Kinds : GenRoundRaise(k)
    \/ \E k \in Kinds : GenRoundStall(k)
    \/ GenerateRounds
    \/ Ask
    \/ AskEOF
    \/ ConductReturn

InitSession == SessionInit /\ BankInit /\ PipeIdle /\ AgentIdle

SpecSession == InitSession /\ [][SessionNext]_vars

BankNext ==
    \E b \in Banks :
        \/ Construct(b)
        \/ SaveRunAppend(b)
        \/ WriteOpen(b)
        \/ WriteOpenFail(b)
        \/ WriteFlush(b)
        \/ WriteFail(b)
        \/ WriteClose(b)

InitBank == BankInit /\ SessionIdle /\ PipeIdle /\ AgentIdle

SpecBank == InitBank /\ [][BankNext]_vars

\* -------------------------------------- Python values of the pipeline
\* a str with literal content; an int; a list; a dict (pairs in insertion order)
Str(x) == [t |-> "str", s |-> x]
PyInt(n) == [t |-> "int", n |-> n]
List(xs) == [t |-> "list", items |-> xs]
Dict(ps) == [t |-> "dict", pairs |-> ps]
KV(k, v) == [k |-> k, v |-> v]
\* str(x) of a value that is neither None nor a str: its printed form
Repr(x) == [t |-> "str", repr |-> x]
\* an f-string: the template's name and the values put into it
Format(name, args) == [t |-> "str", fmt |-> name, args |-> args]

IsDict(x) == x.t = "dict"
IsStr(x) == x.t = "str"

DictHas(d, k) == \E i \in 1..Len(d.pairs) : d.pairs[i].k = k
\* d.get(k, default)
DictGet(d, k, default) ==
    IF DictHas(d, k)
    THEN d.pairs[CHOOSE i \in 1..Len(d.pairs) : d.pairs[i].k = k].v
    ELSE default
\* d[k] = v, whatever d holds under k
SetAlways(d, k, v) ==
    Dict(Append(SelectSeq(d.pairs, LAMBDA kv : kv.k # k), KV(k, v)))
\* d.setdefault(k, v)
SetDefault(d, k, v) == IF DictHas(d, k) THEN d ELSE Dict(Append(d.pairs, KV(k, v)))

\* a safe_text that hands its argument back as it is
safe_text_asis(x, default) == x

\* pipeline.safe_text(x, default)
safe_text(x, default) ==
    IF x = PyNone THEN default
    ELSE IF IsStr(x) THEN x
    ELSE Repr(x)

\* the JSON texts of llm_call's resume and rounds stubs (tools.py)
ResumeStubText ==
    "{\"name\": \"Jane Doe\", \"years_experience\": 3, \"skills\": [\"python\", \"sql\", \"flask\"], \"projects\": [\"project A - ETL\", \"project B - API\"], \"highlights\": [\"reduced latency by 30%\"]}"
RoundsStubText ==
    "{\"Round 1\": {\"name\": \"Technical\", \"questions\": [\"Write a function to find two numbers that sum to target.\", \"Explain a time complexity trade-off you considered.\"]}, \"Round 2\": {\"name\": \"Behavioral\", \"questions\": [\"Tell me about a time you led a project.\", \"Describe a time you handled conflict.\"]}, \"Round 3\": {\"name\": \"System Design\", \"questions\": [\"Design a URL shortener service.\"]}}"

\* json.loads of the response texts the capability may give: the decoded
\* value, or JSONDecodeError for a text that is no JSON document
TextLoads(text) ==
    CASE text = "{\"name\": \"Jane\"}" -> Dict(<<KV("name", Str("Jane"))>>)
      [] text = "{\"skills\": 1}" -> Dict(<<KV("skills", PyInt(1))>>)
      [] text = "[1]" -> List(<<PyInt(1)>>)
      [] text = "7" -> PyInt(7)
      [] text = "null" -> PyNone
      [] text = "\"hi\"" -> Str("hi")
      [] text = "{}" -> Dict(<<>>)
      [] text = "{\"R1\": {\"name\": \"A\", \"questions\": [\"q1\"]}, \"R2\": {\"name\": \"B\", \"questions\": [\"q2\"]}}" ->
            Dict(<<KV("R1", Dict(<<KV("name", Str("A")), KV("questions", List(<<Str("q1")>>))>>)),
                   KV("R2", Dict(<<KV("name", Str("B")), KV("questions", List(<<Str("q2")>>))>>))>>)
      [] text = "{\"R1\": {\"questions\": [\"q1\", \"q2\"]}}" ->
            Dict(<<KV("R1", Dict(<<KV("questions", List(<<Str("q1"), Str("q2")>>))>>))>>)
      [] text = "{\"R1\": {\"name\": \"A\"}}" ->
            Dict(<<KV("R1", Dict(<<KV("name", Str("A"))>>))>>)
      [] text = "{\"R1\": {\"name\": \"A\", \"questions\": [\"q1\", \"q2\"]}, \"R2\": {\"questions\": [\"q3\"]}}" ->
            Dict(<<KV("R1", Dict(<<KV("name", Str("A")),
                                   KV("questions", List(<<Str("q1"), Str("q2")>>))>>)),
                   KV("R2", Dict(<<KV("questions", List(<<Str("q3")>>))>>))>>)
      [] text = "{\"R1\": [\"q1\"]}" -> Dict(<<KV("R1", List(<<Str("q1")>>))>>)
      [] text = "{\"R1\": {\"questions\": 5}}" ->
            Dict(<<KV("R1", Dict(<<KV("questions", PyInt(5))>>))>>)
      [] text = "{\"R1\": {\"questions\": [null, 3]}}" ->
            Dict(<<KV("R1", Dict(<<KV("questions", List(<<PyNone, PyInt(3)>>))>>))>>)
      [] text = "{\"study_plan\": \"p\", \"flashcards\": []}" ->
            Dict(<<KV("study_plan", Str("p")), KV("flashcards", List(<<>>))>>)
      [] text = ResumeStubText ->
            Dict(<<KV("name", Str("Jane Doe")),
                  KV("years_experience", PyInt(3)),
                  KV("skills", List(<<Str("python"),
                      Str("sql"),
                      Str("flask")>>)),
                  KV("projects", List(<<Str("project A - ETL"),
                      Str("project B - API")>>)),
                  KV("highlights", List(<<Str("reduced latency by 30%")>>))>>)
      [] text = RoundsStubText ->
            Dict(<<KV("Round 1", Dict(<<KV("name", Str("Technical")),
                      KV("questions", List(<<Str("Write a function to find two numbers that sum to target."),
                          Str("Explain a time complexity trade-off you considered.")>>))>>)),
                  KV("Round 2", Dict(<<KV("name", Str("Behavioral")),
                      KV("questions", List(<<Str("Tell me about a time you led a project."),
                          Str("Describe a time you handled conflict.")>>))>>)),
                  KV("Round 3", Dict(<<KV("name", Str("System Design")),
                      KV("questions", List(<<Str("Design a URL shortener service.")>>))>>))>>)
      [] OTHER -> JSONDecodeError

\* what llm_call may return at each stage: None, or a text
ProfileResponses ==
    {PyNone} \cup {Str(x) : x \in {"not json", "{\"name\": \"Jane\"}", "{\"skills\": 1}",
                                   "[1]", "7", "null", "\"hi\""}}
RoundsResponses ==
    {PyNone} \cup {Str(x) : x \in {"not json", "\"hi\"", "{}", "[1]",
        "{\"R1\": {\"name\": \"A\", \"questions\": [\"q1\"]}, \"R2\": {\"name\": \"B\", \"questions\": [\"q2\"]}}",
        "{\"R1\": {\"questions\": [\"q1\", \"q2\"]}}",
        "{\"R1\": {\"name\": \"A\"}}",
        "{\"R1\": {\"name\": \"A\", \"questions\": [\"q1\", \"q2\"]}, \"R2\": {\"questions\": [\"q3\"]}}",
        "{\"R1\": [\"q1\"]}",
        "{\"R1\": {\"questions\": 5}}",
        "{\"R1\": {\"questions\": [null, 3]}}"}}
StudyResponses ==
    {PyNone} \cup {Str(x) : x \in {"not json", "[1]",
                                   "{\"study_plan\": \"p\", \"flashcards\": []}"}}
EmailResponses == {PyNone, Str("Hi [Interviewer]")}

\* ------------------------------------------------------------- agents.py
\* ResumeAgent.parse
ResumeAgentParse(resp) ==
    IF resp = PyNone
    THEN Dict(<<KV("raw", PyNone), KV("text_preview", Str("resume_text[:300]"))>>)
    ELSE IF TextLoads(resp.s) # JSONDecodeError THEN TextLoads(resp.s)
    ELSE Dict(<<KV("raw", resp), KV("text_preview", Str("resume_text[:300]"))>>)

\* RoundGeneratorAgent.generate's fallback rounds
TechnicalRounds ==
    Dict(<<KV("Round 1", Dict(<<KV("name", Str("Technical")),
                                KV("questions", List(<<Str("Describe project X.")>>))>>))>>)

\* a generate whose answer to an absent response is the General round
RoundGeneratorAgentGenerateGeneral(resp) ==
    IF resp = PyNone
    THEN Dict(<<KV("Round 1", Dict(<<KV("name", Str("General")),
                                     KV("questions", List(<<>>))>>))>>)
    ELSE IF TextLoads(resp.s) # JSONDecodeError THEN TextLoads(resp.s)
    ELSE TechnicalRounds

\* RoundGeneratorAgent.generate: the decoded response, or the Technical round
RoundGeneratorAgentGenerate(resp) ==
    IF resp = PyNone THEN TechnicalRounds
    ELSE IF TextLoads(resp.s) # JSONDecodeError THEN TextLoads(resp.s)
    ELSE TechnicalRounds

\* StudyPlanAgent.create_plan_and_flashcards
StudyPlanAgentCreate(resp) ==
    IF resp = PyNone
    THEN Dict(<<KV("study_plan", Str("Practice key weaknesses identified in critiques.")),
                KV("flashcards", List(<<>>))>>)
    ELSE IF TextLoads(resp.s) # JSONDecodeError THEN TextLoads(resp.s)
    ELSE Dict(<<KV("study_plan", Str("Week 1: practice arrays; Week 2: system design")),
                KV("flashcards", List(<<Dict(<<KV("q", Str("What is idempotency?")),
                                                KV("a", Str("An operation that can be applied multiple times without changing the result."))>>)>>))>>)

\* EmailAgent.draft
EmailAgentDraft(name, role, resp) ==
    IF resp = PyNone THEN Format("follow_up_fallback", <<role, name>>) ELSE resp

\* a response text held character by character
Chars(cs) == [t |-> "str", chars |-> cs]

\* str.lower on the letters the texts use
ToLower(c) ==
    CASE c = "S" -> "s" [] c = "C" -> "c" [] c = "O" -> "o"
      [] c = "R" -> "r" [] c = "E" -> "e" [] OTHER -> c
Lower(cs) == [i \in 1..Len(cs) |-> ToLower(cs[i])]

\* needle in hay
Contains(hay, needle) ==
    \E i \in 0..(Len(hay) - Len(needle)) :
        \A j \in 1..Len(needle) : hay[i + j] = needle[j]

\* ch.isdigit() and int(ch); "^2" stands for the one character superscript
\* two, which isdigit() takes for a digit and int() rejects with ValueError
IsDecimal(c) == c \in {"0", "1", "2", "3", "4", "5", "6", "7", "8", "9"}
IsDigit(c) == IsDecimal(c) \/ c = "^2"
DigitVal(c) ==
    CASE c = "0" -> 0 [] c = "1" -> 1 [] c = "2" -> 2 [] c = "3" -> 3 [] c = "4" -> 4
      [] c = "5" -> 5 [] c = "6" -> 6 [] c = "7" -> 7 [] c = "8" -> 8 [] c = "9" -> 9

\* "".join(ch for ch in resp if ch.isdigit())
Digits(cs) == SelectSeq(cs, IsDigit)

\* int(digits[:2])
IntOfFirstTwo(ds) ==
    IF Len(ds) = 1 THEN DigitVal(ds[1]) ELSE 10 * DigitVal(ds[1]) + DigitVal(ds[2])

\* int() of these digits raises ValueError
IntRaises(ds) == \E i \in DOMAIN ds : i <= 2 /\ ~IsDecimal(ds[i])

\* a score that is 0 where the text holds no digit
ScoreOrZero(cs) ==
    IF Contains(Lower(cs), <<"s", "c", "o", "r", "e">>)
    THEN IF Digits(cs) # <<>>
         THEN IF IntRaises(Digits(cs)) THEN PyNone
              ELSE PyInt(IntOfFirstTwo(Digits(cs)))
         ELSE PyInt(0)
    ELSE PyNone

\* the score CritiqueAgent.critique reads out of a response text
Score(cs) ==
    IF Contains(Lower(cs), <<"s", "c", "o", "r", "e">>)
    THEN IF Digits(cs) # <<>>
         THEN IF IntRaises(Digits(cs)) THEN PyNone
              ELSE PyInt(IntOfFirstTwo(Digits(cs)))
         ELSE PyNone
    ELSE PyNone

\* CritiqueAgent.critique
CritiqueAgentCritique(resp) ==
    IF resp = PyNone
    THEN Dict(<<KV("raw", PyNone), KV("score", PyNone),
                KV("feedback", Str("No critique generated."))>>)
    ELSE Dict(<<KV("raw", resp), KV("score", Score(resp.chars))>>)

CritiqueResponses ==
    {PyNone,
     Chars(<<"S", "c", "o", "r", "e", ":", " ", "6", "/", "1", "0">>),
     Chars(<<"o", "k">>)}

\* InterviewAgent.run_round: the answer to question q
RunRoundAnswer(inter, typed, q) ==
    IF inter THEN typed ELSE Format("Demo answer for: {q}", <<q>>)

\* what a user may type at input()
TypedAnswers == {Str(""), Str("yes")}

\* the role run is called with
TheRole == Str("Data Scientist")

\* ------------------------------------------------------ tools.py llm_call
\* a text held both whole and character by character
Text(s, cs) == [t |-> "str", s |-> s, chars |-> cs]

\* tools.llm_call's stub responses
ResumeStub ==
    Text(ResumeStubText, <<
        "{", "\"", "n", "a", "m", "e", "\"", ":", " ", "\"", "J", "a", "n", "e", " ", "D",
        "o", "e", "\"", ",", " ", "\"", "y", "e", "a", "r", "s", "_", "e", "x", "p", "e",
        "r", "i", "e", "n", "c", "e", "\"", ":", " ", "3", ",", " ", "\"", "s", "k", "i",
        "l", "l", "s", "\"", ":", " ", "[", "\"", "p", "y", "t", "h", "o", "n", "\"", ",",
        " ", "\"", "s", "q", "l", "\"", ",", " ", "\"", "f", "l", "a", "s", "k", "\"", "]",
        ",", " ", "\"", "p", "r", "o", "j", "e", "c", "t", "s", "\"", ":", " ", "[", "\"",
        "p", "r", "o", "j", "e", "c", "t", " ", "A", " ", "-", " ", "E", "T", "L", "\"",
        ",", " ", "\"", "p", "r", "o", "j", "e", "c", "t", " ", "B", " ", "-", " ", "A",
        "P", "I", "\"", "]", ",", " ", "\"", "h", "i", "g", "h", "l", "i", "g", "h", "t",
        "s", "\"", ":", " ", "[", "\"", "r", "e", "d", "u", "c", "e", "d", " ", "l", "a",
        "t", "e", "n", "c", "y", " ", "b", "y", " ", "3", "0", "%", "\"", "]", "}">>)
RoundsStub == Str(RoundsStubText)
ScoreStub ==
    Text("Score: 6/10. Feedback: Good structure; add metrics and edge-case discussion.", <<
        "S", "c", "o", "r", "e", ":", " ", "6", "/", "1", "0", ".", " ", "F", "e", "e",
        "d", "b", "a", "c", "k", ":", " ", "G", "o", "o", "d", " ", "s", "t", "r", "u",
        "c", "t", "u", "r", "e", ";", " ", "a", "d", "d", " ", "m", "e", "t", "r", "i",
        "c", "s", " ", "a", "n", "d", " ", "e", "d", "g", "e", "-", "c", "a", "s", "e",
        " ", "d", "i", "s", "c", "u", "s", "s", "i", "o", "n", ".">>)
StudyStub ==
    Str("Week 1: arrays & hashing; Week 2: system design patterns; Week 3: behavioral STAR practice")
EmailStub ==
    Str("Hi [Interviewer],\nThanks for the mock interview. I appreciated the feedback. Best, Jane")

\* interviewforge.llm_call's responses to a critique prompt
ForgeParsedStub ==
    Text("ParsedResume: name=Jane Doe; years_experience=3; skills=[python, ml, sql]; highlights=[project A]", <<
        "P", "a", "r", "s", "e", "d", "R", "e", "s", "u", "m", "e", ":", " ", "n", "a",
        "m", "e", "=", "J", "a", "n", "e", " ", "D", "o", "e", ";", " ", "y", "e", "a",
        "r", "s", "_", "e", "x", "p", "e", "r", "i", "e", "n", "c", "e", "=", "3", ";",
        " ", "s", "k", "i", "l", "l", "s", "=", "[", "p", "y", "t", "h", "o", "n", ",",
        " ", "m", "l", ",", " ", "s", "q", "l", "]", ";", " ", "h", "i", "g", "h", "l",
        "i", "g", "h", "t", "s", "=", "[", "p", "r", "o", "j", "e", "c", "t", " ", "A", "]">>)
ForgeRoundsStub ==
    Text("json.dumps(rounds, indent=2)", <<
        "[", "\n", " ", " ", "{", "\n", " ", " ", " ", " ", "\"", "r", "o", "u", "n", "d",
        "\"", ":", " ", "\"", "b", "e", "h", "a", "v", "i", "o", "r", "a", "l", "\"", ",",
        "\n", " ", " ", " ", " ", "\"", "f", "o", "c", "u", "s", "\"", ":", " ", "\"", "c",
        "u", "l", "t", "u", "r", "e", "-", "f", "i", "t", ",", " ", "t", "e", "a", "m",
        "w", "o", "r", "k", "\"", ",", "\n", " ", " ", " ", " ", "\"", "q", "u", "e", "s",
        "t", "i", "o", "n", "s", "\"", ":", " ", "[", "\n", " ", " ", " ", " ", " ", " ",
        "\"", "T", "e", "l", "l", " ", "m", "e", " ", "a", "b", "o", "u", "t", " ", "a",
        " ", "t", "i", "m", "e", " ", "y", "o", "u", " ", "d", "i", "s", "a", "g", "r",
        "e", "e", "d", " ", "w", "i", "t", "h", " ", "a", " ", "t", "e", "a", "m", "m",
        "a", "t", "e", ".", "\"", ",", "\n", " ", " ", " ", " ", " ", " ", "\"", "D", "e",
        "s", "c", "r", "i", "b", "e", " ", "a", " ", "h", "i", "g", "h", "-", "p", "r",
        "e", "s", "s", "u", "r", "e", " ", "s", "i", "t", "u", "a", "t", "i", "o", "n",
        " ", "a", "n", "d", " ", "h", "o", "w", " ", "y", "o", "u", " ", "h", "a", "n",
        "d", "l", "e", "d", " ", "i", "t", ".", "\"", "\n", " ", " ", " ", " ", "]", "\n",
        " ", " ", "}", ",", "\n", " ", " ", "{", "\n", " ", " ", " ", " ", "\"", "r", "o",
        "u", "n", "d", "\"", ":", " ", "\"", "t", "e", "c", "h", "n", "i", "c", "a", "l",
        "-", "c", "o", "d", "i", "n", "g", "\"", ",", "\n", " ", " ", " ", " ", "\"", "f",
        "o", "c", "u", "s", "\"", ":", " ", "\"", "a", "l", "g", "o", "r", "i", "t", "h",
        "m", "s", ",", " ", "p", "y", "t", "h", "o", "n", "\"", ",", "\n", " ", " ", " ",
        " ", "\"", "q", "u", "e", "s", "t", "i", "o", "n", "s", "\"", ":", " ", "[", "\n",
        " ", " ", " ", " ", " ", " ", "\"", "G", "i", "v", "e", "n", " ", "a", "n", " ",
        "a", "r", "r", "a", "y", ",", " ", "f", "i", "n", "d", " ", "t", "w", "o", " ",
        "n", "u", "m", "b", "e", "r", "s", " ", "t", "h", "a", "t", " ", "a", "d", "d",
        " ", "t", "o", " ", "t", "a", "r", "g", "e", "t", ".", "\"", ",", "\n", " ", " ",
        " ", " ", " ", " ", "\"", "I", "m", "p", "l", "e", "m", "e", "n", "t", " ", "L",
        "R", "U", " ", "c", "a", "c", "h", "e", ".", "\"", "\n", " ", " ", " ", " ", "]",
        "\n", " ", " ", "}", ",", "\n", " ", " ", "{", "\n", " ", " ", " ", " ", "\"", "r",
        "o", "u", "n", "d", "\"", ":", " ", "\"", "s", "y", "s", "t", "e", "m", "-", "d",
        "e", "s", "i", "g", "n", "\"", ",", "\n", " ", " ", " ", " ", "\"", "f", "o", "c",
        "u", "s", "\"", ":", " ", "\"", "d", "e", "s", "i", "g", "n", " ", "p", "r", "i",
        "n", "c", "i", "p", "l", "e", "s", "\"", ",", "\n", " ", " ", " ", " ", "\"", "q",
        "u", "e", "s", "t", "i", "o", "n", "s", "\"", ":", " ", "[", "\n", " ", " ", " ",
        " ", " ", " ", "\"", "D", "e", "s", "i", "g", "n", " ", "a", " ", "U", "R", "L",
        " ", "s", "h", "o", "r", "t", "e", "n", "i", "n", "g", " ", "s", "e", "r", "v",
        "i", "c", "e", ".", "\"", "\n", " ", " ", " ", " ", "]", "\n", " ", " ", "}", "\n",
        "]">>)
ForgeScoreStub ==
    Text("Score: 6/10. Feedback: Good structure, but missing complexity discussion and performance tradeoffs. Suggest: mention edge cases and complexity.", <<
        "S", "c", "o", "r", "e", ":", " ", "6", "/", "1", "0", ".", " ", "F", "e", "e",
        "d", "b", "a", "c", "k", ":", " ", "G", "o", "o", "d", " ", "s", "t", "r", "u",
        "c", "t", "u", "r", "e", ",", " ", "b", "u", "t", " ", "m", "i", "s", "s", "i",
        "n", "g", " ", "c", "o", "m", "p", "l", "e", "x", "i", "t", "y", " ", "d", "i",
        "s", "c", "u", "s", "s", "i", "o", "n", " ", "a", "n", "d", " ", "p", "e", "r",
        "f", "o", "r", "m", "a", "n", "c", "e", " ", "t", "r", "a", "d", "e", "o", "f",
        "f", "s", ".", " ", "S", "u", "g", "g", "e", "s", "t", ":", " ", "m", "e", "n",
        "t", "i", "o", "n", " ", "e", "d", "g", "e", " ", "c", "a", "s", "e", "s", " ",
        "a", "n", "d", " ", "c", "o", "m", "p", "l", "e", "x", "i", "t", "y", ".">>)
FlashStub == Str("json.dumps(flashcards)")
GenericStub == Str("LLM_STUB: (no full model available) prompt[:200]")

\* the words llm_call's stub looks for that each agent's prompt template holds
TemplateWords(a) ==
    CASE a = "resume" -> {"extract", "resume"}
      [] a = "rounds" -> {"generate", "round", "resume"}
      [] a = "critique" -> {"critique", "feedback", "resume"}
      [] a = "study" -> {"critique", "study plan", "flashcard"}
      [] a = "email" -> {"follow-up", "email"}

\* the stub words the texts put into a prompt (resume, answers, critiques) add
ExtraWords == SUBSET {"extract", "critique"}

\* llm_call's fallback stub, chosen by the words of the lower-cased prompt
Stub(w) ==
    IF "extract" \in w /\ "resume" \in w THEN ResumeStub
    ELSE IF "generate" \in w /\ "round" \in w THEN RoundsStub
    ELSE IF "critique" \in w \/ "feedback" \in w THEN ScoreStub
    ELSE IF "study plan" \in w THEN StudyStub
    ELSE IF "flashcard" \in w THEN FlashStub
    ELSE IF "follow-up" \in w \/ "email" \in w THEN EmailStub
    ELSE GenericStub

\* what stands behind llm_call: no API key or no client library ("offline"),
\* a generate_content that raises ("failed"), or a response whose text is
\* None or a string
Outcomes(texts) ==
    {[kind |-> "offline"], [kind |-> "failed"]}
    \cup {[kind |-> "text", text |-> r] : r \in texts}

\* tools.llm_call(prompt): response.text, or the stub when there is no
\* capability or its call raised
LlmCall(w, o) == IF o.kind = "text" THEN o.text ELSE Stub(w)

\* the critique responses: "Score", "SCORE" or "ok" and up to MaxTail more
\* characters
MaxTail == 3
TailChars == {" ", "/", "0", "1", "6", "^2"}
Tails == UNION {[1..n -> TailChars] : n \in 0..MaxTail}
Heads == {<<"S", "c", "o", "r", "e">>, <<"S", "C", "O", "R", "E">>, <<"o", "k">>}
CritiqueTexts == {PyNone} \cup {Chars(h \o t) : h \in Heads, t \in Tails}

\* interviewforge.llm_call on CritiqueAgent's prompt, which always ends with
\* "(Tag: critique answer)"
ForgeExtraWords == SUBSET {"parse resume", "generate rounds"}
ForgeLlmCall(w) ==
    IF "parse resume" \in w THEN ForgeParsedStub
    ELSE IF "generate rounds" \in w THEN ForgeRoundsStub
    ELSE IF "critique answer" \in w THEN ForgeScoreStub
    ELSE Str("LLM: placeholder")

\* interviewforge.CritiqueAgent.critique
ForgeCritiqueAgentCritique(resp) ==
    Dict(<<KV("raw", resp), KV("score", PyInt(6)), KV("feedback", resp)>>)

\* what agent a returns when llm_call returned resp
AgentReturns(a, resp) ==
    CASE a = "resume" -> ResumeAgentParse(resp)
      [] a = "rounds" -> RoundGeneratorAgentGenerate(resp)
      [] a = "critique" -> CritiqueAgentCritique(resp)
      [] a = "study" -> StudyPlanAgentCreate(resp)
      [] a = "email" -> EmailAgentDraft(Str("Jane"), TheRole, resp)
      [] a = "forge_critique" -> ForgeCritiqueAgentCritique(resp)

AgentInit ==
    /\ apc = "idle"
    /\ agent = "none"
    /\ words = {}
    /\ outcome = [kind |-> "none"]
    /\ llm_resp = PyNone
    /\ agent_out = PyNone

\* one call of agent a: it builds its prompt, calls llm_call and returns
CallAgent(a, texts) ==
    /\ apc = "idle"
    /\ \E x \in ExtraWords, o \in Outcomes(texts) :
          /\ words' = TemplateWords(a) \cup x
          /\ outcome' = o
          /\ llm_resp' = LlmCall(TemplateWords(a) \cup x, o)
          /\ agent_out' = AgentReturns(a, LlmCall(TemplateWords(a) \cup x, o))
    /\ agent' = a
    /\ apc' = "returned"

ResumeAgentCall == CallAgent("resume", ProfileResponses) /\ UNCHANGED notAgents
RoundGeneratorAgentCall == CallAgent("rounds", RoundsResponses) /\ UNCHANGED notAgents
CritiqueAgentCall == CallAgent("critique", CritiqueTexts) /\ UNCHANGED notAgents
StudyPlanAgentCall == CallAgent("study", StudyResponses) /\ UNCHANGED notAgents
EmailAgentCall == CallAgent("email", EmailResponses) /\ UNCHANGED notAgents

\* one call of interviewforge.CritiqueAgent.critique
ForgeCritiqueAgentCall ==
    /\ apc = "idle"
    /\ \E x \in ForgeExtraWords :
          /\ words' = {"critique answer"} \cup x
          /\ llm_resp' = ForgeLlmCall({"critique answer"} \cup x)
          /\ agent_out' = ForgeCritiqueAgentCritique(ForgeLlmCall({"critique answer"} \cup x))
    /\ outcome' = [kind |-> "offline"]
    /\ agent' = "forge_critique"
    /\ apc' = "returned"
    /\ UNCHANGED notAgents

AgentsNext ==
    \/ ResumeAgentCall
    \/ RoundGeneratorAgentCall
    \/ CritiqueAgentCall
    \/ StudyPlanAgentCall
    \/ EmailAgentCall
    \/ ForgeCritiqueAgentCall

InitAgents == AgentInit /\ BankIdle /\ SessionIdle /\ PipeIdle

SpecAgents == InitAgents /\ [][AgentsNext]_vars

\* ------------------------------------------------- pipeline.py Orchestrator
\* lines 55-62 and 73-80: a str result is decoded once more, or replaced
DecodeAgain(raw, fallback) ==
    IF IsStr(raw)
    THEN IF TextLoads(raw.s) # JSONDecodeError THEN TextLoads(raw.s) ELSE fallback
    ELSE raw

GeneralRounds ==
    Dict(<<KV("Round 1", Dict(<<KV("name", Str("General")), KV("questions", List(<<>>))>>))>>)

\* run_summary, lines 148-156
RunSummary ==
    [profile |-> profile, role |-> TheRole, rounds |-> run_rounds,
     transcript |-> transcript, critiques |-> critiques, study |-> study_obj,
     follow_up_email |-> email_text]

PipeInit ==
    /\ pc = "new"
    /\ err = "none"
    /\ profile = PyNone
    /\ run_rounds = PyNone
    /\ ridx = 1
    /\ transcript = <<>>
    /\ critiques = <<>>
    /\ cidx = 1
    /\ study_obj = PyNone
    /\ email_text = PyNone
    /\ p_interactive \in BOOLEAN
    /\ result = PyNone
    /\ log = <<>>
    /\ heard = NothingHeard

\* Orchestrator.__init__: the agents, and self.memory = MemoryBank()
NewOrchestrator ==
    /\ pc = "new"
    /\ ConstructCore(1)
    /\ pc' = "parse"
    /\ UNCHANGED <<heard, cidx, err, profile, run_rounds, ridx, transcript, critiques, study_obj,
                   email_text, p_interactive, result, log, sessionVars, agentVars>>

\* run, stage 1 (lines 52-65): parse the resume, decode, default the name;
\* setdefault on a value that is no dict raises AttributeError
ParseResume ==
    /\ pc = "parse"
    /\ \E resp \in ProfileResponses :
          /\ heard' = [heard EXCEPT !.profile = resp]
          /\ LET raw == ResumeAgentParse(resp)
                 decoded == DecodeAgain(raw,
                                Dict(<<KV("raw_output", safe_text(raw, Str("")))>>))
             IN IF IsDict(decoded)
                THEN /\ profile' = SetDefault(decoded, "name", Str("Candidate"))
                     /\ pc' = "rounds"
                     /\ err' = err
                ELSE /\ profile' = decoded
                     /\ pc' = "raised"
                     /\ err' = "AttributeError"
    /\ log' = Append(log, "profile")
    /\ UNCHANGED <<cidx, run_rounds, ridx, transcript, critiques, study_obj, email_text,
                   p_interactive, result, bankVars, sessionVars, agentVars>>

\* run, stage 2 (lines 71-80): generate the rounds and decode them
GenerateRoundsStage ==
    /\ pc = "rounds"
    /\ \E resp \in RoundsResponses :
          /\ run_rounds' = DecodeAgain(RoundGeneratorAgentGenerate(resp), GeneralRounds)
          /\ heard' = [heard EXCEPT !.rounds = resp]
    /\ pc' = "interview"
    /\ log' = Append(log, "rounds")
    /\ UNCHANGED <<cidx, err, profile, ridx, transcript, critiques, study_obj, email_text,
                   p_interactive, result, bankVars, sessionVars, agentVars>>

\* line 87: rounds.items() on a value that is no dict raises AttributeError
RoundsItemsRaise ==
    /\ pc = "interview"
    /\ ~IsDict(run_rounds)
    /\ pc' = "raised"
    /\ err' = "AttributeError"
    /\ UNCHANGED <<heard, cidx, profile, run_rounds, ridx, transcript, critiques, study_obj,
                   email_text, p_interactive, result, log, bankVars, sessionVars, agentVars>>

\* the round the interview loop is at: its r_info and its questions
RInfo == run_rounds.pairs[ridx].v

\* a round whose entry lacks a sub-field is given the whole fallback round
QuestionsOrFallback ==
    IF DictHas(RInfo, "name") /\ DictHas(RInfo, "questions")
    THEN DictGet(RInfo, "questions", List(<<>>))
    ELSE DictGet(TechnicalRounds.pairs[1].v, "questions", List(<<>>))

\* line 89: questions = r_info.get("questions", [])
Questions == DictGet(RInfo, "questions", List(<<>>))

\* line 88: round_name = r_info.get("name", r_key)
RoundName == DictGet(RInfo, "name", Str(run_rounds.pairs[ridx].k))

\* a transcript that takes each round's pairs at its front
ExtendFront(ts, qa) == qa \o ts

\* line 100: transcript.extend(qa_pairs)
Extend(ts, qa) == ts \o qa

\* lines 88-91: r_info.get on a value that is no dict raises AttributeError,
\* len(questions) on an int or None raises TypeError
RoundRaise ==
    /\ pc = "interview"
    /\ IsDict(run_rounds)
    /\ ridx <= Len(run_rounds.pairs)
    /\ IF ~IsDict(RInfo) THEN err' = "AttributeError"
       ELSE /\ Questions.t \in {"int", "None"}
            /\ err' = "TypeError"
    /\ pc' = "raised"
    /\ UNCHANGED <<heard, cidx, profile, run_rounds, ridx, transcript, critiques, study_obj,
                   email_text, p_interactive, result, log, bankVars, sessionVars, agentVars>>

\* run, stage 3, one round (lines 87-100): run_round asks every question of
\* the round, the pairs are normalised with safe_text and join the transcript
RunRound ==
    /\ pc = "interview"
    /\ IsDict(run_rounds)
    /\ ridx <= Len(run_rounds.pairs)
    /\ IsDict(RInfo)
    /\ Questions.t = "list"
    /\ \E typed \in [1..Len(Questions.items) -> TypedAnswers] :
          transcript' = Extend(transcript,
              [i \in 1..Len(Questions.items) |->
                  [question |-> safe_text(Questions.items[i], Str("")),
                   answer |-> safe_text(
                       RunRoundAnswer(p_interactive, typed[i], Questions.items[i]),
                       Str(""))]])
    /\ heard' = [heard EXCEPT !.asked =
                    Append(@, [round_name |-> RoundName, questions |-> Questions])]
    /\ ridx' = ridx + 1
    /\ log' = Append(log, "interview")
    /\ UNCHANGED <<cidx, pc, err, profile, run_rounds, critiques, study_obj, email_text,
                   p_interactive, result, bankVars, sessionVars, agentVars>>

\* input() meets the end of standard input: EOFError out of run_round and run
RunRoundEOF ==
    /\ pc = "interview"
    /\ IsDict(run_rounds)
    /\ ridx <= Len(run_rounds.pairs)
    /\ IsDict(RInfo)
    /\ Questions.t = "list"
    /\ Questions.items # <<>>
    /\ p_interactive
    /\ pc' = "raised"
    /\ err' = "EOFError"
    /\ log' = Append(log, "interview")
    /\ UNCHANGED <<heard, cidx, profile, run_rounds, ridx, transcript, critiques, study_obj,
                   email_text, p_interactive, result, bankVars, sessionVars, agentVars>>

\* the loop over rounds.items() ends
InterviewDone ==
    /\ pc = "interview"
    /\ IsDict(run_rounds)
    /\ ridx > Len(run_rounds.pairs)
    /\ pc' = "critique"
    /\ UNCHANGED <<heard, cidx, err, profile, run_rounds, ridx, transcript, critiques, study_obj,
                   email_text, p_interactive, result, log, bankVars, sessionVars, agentVars>>

\* a critique entry that carries the answer as its question
CritiqueEntrySwapped(qa, resp) ==
    [question |-> qa.answer, answer |-> qa.question,
     critique |-> safe_text(CritiqueAgentCritique(resp), Str("No critique generated."))]

\* one critique entry (lines 107-117)
CritiqueEntry(qa, resp) ==
    [question |-> qa.question, answer |-> qa.answer,
     critique |-> safe_text(CritiqueAgentCritique(resp), Str("No critique generated."))]

\* a critique that leaves out the answers the capability gave no text for
CritiqueAnswerSkipAbsent(cs, qa, resp) ==
    IF resp = PyNone THEN cs ELSE Append(cs, CritiqueEntry(qa, resp))

\* the body of the loop over the transcript: critique qa, append the entry
CritiqueAnswer(cs, qa, resp) == Append(cs, CritiqueEntry(qa, resp))

\* run, stage 4, one turn of the loop over the transcript (lines 106-117)
Critique ==
    /\ pc = "critique"
    /\ cidx <= Len(transcript)
    /\ \E resp \in CritiqueResponses :
          /\ critiques' = CritiqueAnswer(critiques, transcript[cidx], resp)
          /\ heard' = [heard EXCEPT !.critique = Append(@, resp),
                                    !.critiqued = Append(@, [question |-> transcript[cidx].question,
                                                             answer |-> transcript[cidx].answer])]
    /\ cidx' = cidx + 1
    /\ log' = Append(log, "critique")
    /\ UNCHANGED <<pc, err, profile, run_rounds, ridx, transcript, study_obj,
                   email_text, p_interactive, result, bankVars, sessionVars, agentVars>>

\* run, stage 5 (lines 122-130): study plan and flashcards
StudyPlan ==
    /\ pc = "critique"
    /\ cidx > Len(transcript)
    /\ \E resp \in StudyResponses :
          LET raw == StudyPlanAgentCreate(resp)
          IN /\ study_obj' = DecodeAgain(raw, Dict(<<KV("raw_output", raw)>>))
             /\ heard' = [heard EXCEPT !.study = resp]
    /\ pc' = "email"
    /\ log' = Append(log, "study")
    /\ UNCHANGED <<cidx, err, profile, run_rounds, ridx, transcript, critiques, email_text,
                   p_interactive, result, bankVars, sessionVars, agentVars>>

\* run, stage 6 (lines 135-143): the follow-up email
DraftEmail ==
    /\ pc = "email"
    /\ \E resp \in EmailResponses :
          /\ email_text' = safe_text(
                EmailAgentDraft(DictGet(profile, "name", Str("Candidate")), TheRole, resp),
                Str(""))
          /\ heard' = [heard EXCEPT !.email = resp]
    /\ pc' = "save"
    /\ log' = Append(log, "email")
    /\ UNCHANGED <<cidx, err, profile, run_rounds, ridx, transcript, critiques, study_obj,
                   p_interactive, result, bankVars, sessionVars, agentVars>>

\* line 158: self.memory.save_run(run_summary), up to the append
SaveRun ==
    /\ pc = "save"
    /\ SaveRunAppendCore(1, RunSummary)
    /\ log' = Append(log, "save")
    /\ IF bpc'[1] = "raised"
       THEN pc' = "raised" /\ err' = "KeyError"
       ELSE pc' = "saving" /\ err' = err
    /\ UNCHANGED <<heard, cidx, profile, run_rounds, ridx, transcript, critiques, study_obj,
                   email_text, p_interactive, result, sessionVars, agentVars>>

\* save_run's write_text opens the store file
SaveOpen ==
    /\ pc = "saving"
    /\ WriteOpenCore(1)
    /\ UNCHANGED <<pipeVars, sessionVars, agentVars>>

\* a run that logs the failed store write and goes on
SaveFailSwallowed ==
    /\ pc = "saving"
    /\ WriteOpenFailCore(1) \/ WriteFailCore(1)
    /\ pc' = "last_run"
    /\ UNCHANGED <<heard, cidx, err, profile, run_rounds, ridx, transcript, critiques,
                   study_obj, email_text, p_interactive, result, log, sessionVars,
                   agentVars>>

\* the store write fails, at open or part-way: OSError out of save_run and run
SaveFail ==
    /\ pc = "saving"
    /\ WriteOpenFailCore(1) \/ WriteFailCore(1)
    /\ pc' = "raised"
    /\ err' = "OSError"
    /\ UNCHANGED <<heard, cidx, profile, run_rounds, ridx, transcript, critiques, study_obj,
                   email_text, p_interactive, result, log, sessionVars, agentVars>>

\* the store write completes and save_run returns
SaveClose ==
    /\ pc = "saving"
    /\ WriteCloseCore(1)
    /\ pc' = "last_run"
    /\ UNCHANGED <<heard, cidx, err, profile, run_rounds, ridx, transcript, critiques, study_obj,
                   email_text, p_interactive, result, log, sessionVars, agentVars>>

\* lines 160-166: last_run.json is written and run returns run_summary, which
\* save_run has stamped
ReturnSummary ==
    /\ pc = "last_run"
    /\ pc' = "returned"
    /\ result' = arg[1]
    /\ UNCHANGED <<heard, cidx, err, profile, run_rounds, ridx, transcript, critiques, study_obj,
                   email_text, p_interactive, log, bankVars, sessionVars, agentVars>>

\* writing last_run.json fails: OSError out of run
LastRunFail ==
    /\ pc = "last_run"
    /\ pc' = "raised"
    /\ err' = "OSError"
    /\ UNCHANGED <<heard, cidx, profile, run_rounds, ridx, transcript, critiques, study_obj,
                   email_text, p_interactive, result, log, bankVars, sessionVars, agentVars>>

PipeNext ==
    \/ NewOrchestrator
    \/ ParseResume
    \/ GenerateRoundsStage
    \/ RoundsItemsRaise
    \/ RoundRaise
    \/ RunRound
    \/ RunRoundEOF
    \/ InterviewDone
    \/ Critique
    \/ StudyPlan
    \/ DraftEmail
    \/ SaveRun
    \/ SaveOpen
    \/ SaveFail
    \/ SaveClose
    \/ ReturnSummary
    \/ LastRunFail

\* the store files an Orchestrator may be built over
PipeStores == {JsonDumps(RunsDict(<<PriorRecord>>)), JsonDumps(EmptyDict)}

InitPipe ==
    /\ PipeInit
    /\ SessionIdle
    /\ AgentIdle
    /\ fileExists \in BOOLEAN
    /\ fileText \in (IF fileExists THEN PipeStores ELSE {<<>>})
    /\ data = [b \in Banks |-> PyNone]
    /\ bpc = [b \in Banks |-> "unborn"]
    /\ woff = [b \in Banks |-> 0]
    /\ nsaves = [b \in Banks |-> 0]
    /\ saved = [b \in Banks |-> <<>>]
    /\ store0 = [exists |-> fileExists, text |-> fileText]
    /\ arg = [b \in Banks |-> PyNone]

SpecPipe == InitPipe /\ [][PipeNext]_vars

\* -------------------------------------------------------------- the run
\* how many times run has called stage s
Count(s) == Cardinality({i \in DOMAIN log : log[i] = s})

\* the place of a stage call in the order run is to keep
Rank(s) ==
    CASE s = "profile" -> 1 [] s = "rounds" -> 2 [] s = "interview" -> 3
      [] s = "critique" -> 4 [] s = "study" -> 5 [] s = "email" -> 6
      [] s = "save" -> 7

\* run has ended, by return or by exception
Ended == pc \in {"returned", "raised"}

\* C1: at the moment Orchestrator.run calls MemoryBank.save_run, the run
\* summary it passes has as many critiques as transcript entries, and so has
\* every run summary the store has taken.
C1_TranscriptMatchesCritiques ==
    /\ pc = "save" => Len(RunSummary.transcript) = Len(RunSummary.critiques)
    /\ Count("save") > 0 => Len(arg[1].transcript) = Len(arg[1].critiques)

\* save_run is being called with a transcript of two answers, one of which
\* the critique capability gave no text for
C1_Witness ==
    /\ pc = "save"
    /\ Len(transcript) = 2
    /\ \E i \in DOMAIN critiques :
          critiques[i].critique = Repr(CritiqueAgentCritique(PyNone))

\* C2: run calls its stages in the order profile, rounds, interview,
\* critique, study plan, follow-up, save_run; nothing is called after
\* save_run; and a run that has ended has called each of the profile, rounds,
\* study-plan and follow-up stages exactly once.
C2_StagesOnceInOrder ==
    /\ \A i, j \in DOMAIN log : i < j => Rank(log[i]) <= Rank(log[j])
    /\ Count("save") <= 1
    /\ Ended => \A s \in {"profile", "rounds", "study", "email"} : Count(s) = 1

\* C3: whatever the text capability gives each stage, run reaches save_run:
\* a run that ends with an exception has called save_run, the exception being
\* the store's (the end of standard input at an interactive prompt is no
\* capability outcome and is left aside).
C3_OnlyPersistenceFails ==
    (pc = "raised" /\ err # "EOFError") => Count("save") = 1

\* a string, and not None
IsString(x) == IsStr(x) /\ x # PyNone
QAPairsAreStrings(ts) ==
    \A i \in DOMAIN ts : IsString(ts[i].question) /\ IsString(ts[i].answer)

\* the rounds response whose questions are null and a number
OddQuestions == Str("{\"R1\": {\"questions\": [null, 3]}}")

\* C11: every transcript entry of run, and of the RunSummary run returns, has
\* a question and an answer that are strings and not None; a null question
\* becomes the empty string and a number its text.
C11_QAPairsAreStrings ==
    /\ QAPairsAreStrings(transcript)
    /\ pc = "returned" =>
          /\ QAPairsAreStrings(result.transcript)
          /\ heard.rounds = OddQuestions =>
                /\ result.transcript[1].question = Str("")
                /\ result.transcript[2].question = Repr(PyInt(3))

\* run has returned a RunSummary whose round held a null question
C11_Witness ==
    /\ pc = "returned"
    /\ heard.rounds = OddQuestions
    /\ Len(result.transcript) = 2

\* {"Round 1": {name: "Technical", questions: ["Describe project X."]}}
FallbackRounds ==
    Dict(<<KV("Round 1", Dict(<<KV("name", Str("Technical")),
                                KV("questions", List(<<Str("Describe project X.")>>))>>))>>)

\* C12: when llm_call gives the rounds stage no response, the rounds run works
\* on, and the rounds of the RunSummary it returns, are exactly the one
\* Technical round with the one question "Describe project X.".
C12_AbsentRoundsFallback ==
    heard.rounds = PyNone =>
        /\ run_rounds = FallbackRounds
        /\ pc = "returned" => result.rounds = FallbackRounds

\* run has returned, the rounds stage heard nothing, the other stages did
C12_Witness ==
    /\ pc = "returned"
    /\ heard.rounds = PyNone
    /\ heard.profile # PyNone
    /\ heard.study # PyNone
    /\ heard.email # PyNone

\* llm_call gave no response at any stage
AllAbsent ==
    /\ heard.profile = PyNone
    /\ heard.rounds = PyNone
    /\ \A i \in DOMAIN heard.critique : heard.critique[i] = PyNone
    /\ heard.study = PyNone
    /\ heard.email = PyNone

\* C13: when llm_call gives no response at any stage, the profile of the
\* RunSummary run returns is exactly {"name": "Candidate"}.
C13_AbsentProfileIsNameOnly ==
    (pc = "returned" /\ AllAbsent) =>
        result.profile = Dict(<<KV("name", Str("Candidate"))>>)

\* the name the profile response supplies, None when it supplies none
SuppliedName(resp) ==
    IF resp = PyNone THEN PyNone
    ELSE IF TextLoads(resp.s) = JSONDecodeError THEN PyNone
    ELSE IF ~IsDict(TextLoads(resp.s)) THEN PyNone
    ELSE DictGet(TextLoads(resp.s), "name", PyNone)

HasRightName(p) ==
    /\ IsDict(p)
    /\ DictHas(p, "name")
    /\ DictGet(p, "name", PyNone) =
          (IF SuppliedName(heard.profile) = PyNone THEN Str("Candidate")
           ELSE SuppliedName(heard.profile))

\* C14: the profile run passes to the rounds stage, and the profile of the
\* RunSummary it saves and returns, has a name: the name the profile response
\* supplied, or "Candidate" when it supplied none.
C14_ProfileHasName ==
    /\ pc = "rounds" => HasRightName(profile)
    /\ pc = "save" => HasRightName(RunSummary.profile)
    /\ pc = "returned" => HasRightName(result.profile)

\* run has returned a RunSummary whose profile keeps the decoded name
C14_Witness ==
    /\ pc = "returned"
    /\ SuppliedName(heard.profile) = Str("Jane")
    /\ DictGet(result.profile, "name", PyNone) = Str("Jane")

\* a critique with a null score and the feedback "No critique generated."
IsNoCritique(c) ==
    /\ IsDict(c)
    /\ DictHas(c, "score")
    /\ DictGet(c, "score", Unheard) = PyNone
    /\ DictGet(c, "feedback", Unheard) = Str("No critique generated.")

\* C15: in the RunSummary run returns, the critique of every answer the
\* critique stage heard no response for has a null score and the feedback
\* "No critique generated."; and when no stage heard a response the summary
\* holds one transcript entry and one critique.
C15_AbsentCritique ==
    pc = "returned" =>
        /\ \A i \in DOMAIN result.critiques :
              heard.critique[i] = PyNone => IsNoCritique(result.critiques[i].critique)
        /\ AllAbsent => Len(result.transcript) = 1 /\ Len(result.critiques) = 1

\* C21: when the store write inside save_run fails, run raises and returns no
\* RunSummary: a run that has returned has had its record written by a
\* save_run that returned.
C21_WriteFailureRaises ==
    /\ bpc[1] \in {"raised", "write_raised"} => pc = "raised" /\ result = PyNone
    /\ pc = "returned" => bpc[1] = "idle" /\ saved[1] = <<result>>

\* the store write failed part-way and run has raised OSError
C21_Witness ==
    /\ pc = "raised"
    /\ err = "OSError"
    /\ bpc[1] = "write_raised"
    /\ result = PyNone

\* the rounds response decoded to a mapping
RoundsDecoded == IsStr(heard.rounds) /\ IsDict(TextLoads(heard.rounds.s))

\* the value a round entry holds under key k
Field(e, k) == (CHOOSE kv \in {e.pairs[n] : n \in 1..Len(e.pairs)} : kv.k = k).v

\* C23: when the rounds response decodes to a mapping, run keeps that mapping
\* as its rounds (no whole fallback), and every round it runs is run under the
\* entry's own name and questions where the entry has them, under the round's
\* key where it has no name and with the empty list where it has no questions.
C23_OnlyMissingFieldDefaulted ==
    RoundsDecoded =>
        /\ run_rounds = TextLoads(heard.rounds.s)
        /\ \A i \in DOMAIN heard.asked :
              LET e == TextLoads(heard.rounds.s).pairs[i]
              IN /\ heard.asked[i].round_name =
                        (IF DictHas(e.v, "name") THEN Field(e.v, "name") ELSE Str(e.k))
                 /\ heard.asked[i].questions =
                        (IF DictHas(e.v, "questions") THEN Field(e.v, "questions")
                         ELSE List(<<>>))

\* run returned over a second round that has no name, after a first that has
\* both sub-fields
C23_Witness ==
    /\ pc = "returned"
    /\ RoundsDecoded
    /\ Len(heard.asked) = 2
    /\ heard.asked[1] = [round_name |-> Str("A"),
                         questions |-> List(<<Str("q1"), Str("q2")>>)]
    /\ heard.asked[2] = [round_name |-> Str("R2"), questions |-> List(<<Str("q3")>>)]
    /\ ~DictHas(run_rounds.pairs[2].v, "name")

\* the questions of the first n rounds, in the rounds' order and each round's
\* listed order, as safe_text gives them
RECURSIVE AskedUpTo(_)
AskedUpTo(n) ==
    IF n = 0 THEN <<>>
    ELSE LET qs == DictGet(run_rounds.pairs[n].v, "questions", List(<<>>)).items
         IN AskedUpTo(n - 1) \o [i \in 1..Len(qs) |-> safe_text(qs[i], Str(""))]

\* the questions of a transcript, in its order
QuestionsOf(ts) == [i \in 1..Len(ts) |-> ts[i].question]

\* C24: the transcript of run is, at every turn of the interview loop and in
\* the RunSummary returned, the questions of the rounds run so far, round after
\* round in the rounds' insertion order and question after question in each
\* round's listed order, each once.
C24_TranscriptInRoundOrder ==
    /\ QuestionsOf(transcript) = AskedUpTo(ridx - 1)
    /\ pc = "returned" =>
          /\ ridx = Len(run_rounds.pairs) + 1
          /\ QuestionsOf(result.transcript) = AskedUpTo(Len(run_rounds.pairs))

\* run returned over two rounds of two questions and one
C24_Witness ==
    /\ pc = "returned"
    /\ Len(run_rounds.pairs) = 2
    /\ QuestionsOf(result.transcript) = <<Str("q1"), Str("q2"), Str("q3")>>

\* the last record of a list of records
Last(rs) == rs[Len(rs)]

\* how many times rec is in rs
Occurrences(rec, rs) == Cardinality({i \in 1..Len(rs) : rs[i] = rec})

\* C25: when run has returned a RunSummary, run has called save_run once, the
\* summary is once in the orchestrator's list_runs() and is its last element,
\* and the store file decodes to a record list whose last record is it.
C25_ReturnedSummaryIsLastSaved ==
    pc = "returned" =>
        /\ Count("save") = 1
        /\ nsaves[1] = 1
        /\ Occurrences(result, ListRuns(data[1])) = 1
        /\ Last(ListRuns(data[1])) = result
        /\ HasRuns(JsonLoads(fileText))
        /\ Last(JsonLoads(fileText).runs) = result

\* run returned over a store that held a record already
C25_Witness ==
    /\ pc = "returned"
    /\ ListRuns(data[1]) = <<PriorRecord, result>>
    /\ JsonLoads(fileText).runs = <<PriorRecord, result>>

\* the question and answer of each entry of a transcript
PairsOf(ts) == [i \in 1..Len(ts) |-> [question |-> ts[i].question, answer |-> ts[i].answer]]

\* C26: the critiques of run are index-aligned with its transcript: critique i
\* carries the question and the answer of transcript entry i, the critique
\* agent has been called with the entries critiqued so far, one call each in
\* the transcript's order, and the RunSummary saved or returned has one
\* critique per transcript entry, aligned the same way.
C26_CritiquesAlignTranscript ==
    /\ PairsOf(critiques) = SubSeq(PairsOf(transcript), 1, cidx - 1)
    /\ heard.critiqued = SubSeq(PairsOf(transcript), 1, cidx - 1)
    /\ Len(heard.critique) = cidx - 1
    /\ arg[1] # PyNone =>
          /\ PairsOf(arg[1].critiques) = PairsOf(arg[1].transcript)
          /\ heard.critiqued = PairsOf(arg[1].transcript)
          /\ Count("critique") = Len(arg[1].transcript)
    /\ pc = "returned" => result = arg[1]

\* run returned a summary of three critiqued answers
C26_Witness ==
    /\ pc = "returned"
    /\ Len(result.critiques) = 3
    /\ result.critiques[3].question = Str("q3")
    /\ result.critiques[3].answer = result.transcript[3].answer
    /\ result.critiques[1].question # result.critiques[1].answer

\* ------------------------------------------------------------ the agents
\* a critique agent has returned after llm_call gave it a text
CritiqueReturned ==
    /\ apc = "returned"
    /\ agent \in {"critique", "forge_critique"}
    /\ llm_resp # PyNone

\* the text holds "score" in some letter case; it holds a decimal digit
HasScoreWord(cs) == Contains(Lower(cs), <<"s", "c", "o", "r", "e">>)
HasDecimal(cs) == \E i \in DOMAIN cs : IsDecimal(cs[i])

\* the score of the critique the agent returned, Unheard when it has none
ReturnedScore == DictGet(agent_out, "score", Unheard)

RECURSIVE FirstRun(_)
FirstRun(cs) ==
    IF cs = <<>> THEN <<>>
    ELSE IF ~IsDecimal(Head(cs)) THEN FirstRun(Tail(cs))
    ELSE IF Len(cs) >= 2 /\ IsDecimal(cs[2]) THEN <<cs[1], cs[2]>>
    ELSE <<cs[1]>>

\* C17: CritiqueAgent.critique, given a response text holding "score" and a
\* digit, returns as score the integer of the text's first run of consecutive
\* digits cut to two digits: "Score: 6/10" gives 6.
C17_ScoreIsFirstRun ==
    (CritiqueReturned /\ agent = "critique" /\ HasScoreWord(llm_resp.chars)
        /\ HasDecimal(llm_resp.chars)) =>
        ReturnedScore = PyInt(IntOfFirstTwo(FirstRun(llm_resp.chars)))

\* C18: the score of every critique a critique agent returns is None or an
\* integer from 1 to 10.
C18_ScoreInRange ==
    (apc = "returned" /\ agent \in {"critique", "forge_critique"}) =>
        ReturnedScore \in {PyNone} \cup {PyInt(n) : n \in 1..10}

\* C19: an agent whose capability call failed returns what it returns when
\* llm_call gives it no response.
C19_FailureIsAbsence ==
    (apc = "returned" /\ outcome.kind = "failed") =>
        agent_out = AgentReturns(agent, PyNone)

\* ------------------------------------------------------------ the store
\* rec is one of the records of the sequence rs
InRuns(rec, rs) == \E i \in 1..Len(rs) : rs[i] = rec

\* the records a MemoryBank built now over the store file would list
Reloaded == ListRuns(MemoryBankInit(fileExists, fileText))

\* the records the store file held before any bank was built
Prior == LET d == MemoryBankInit(store0.exists, store0.text)
         IN IF HasRuns(d) THEN d.runs ELSE <<>>

\* the store began missing, zero-length or with an empty record list
StartedEmpty == ~store0.exists \/ store0.text \in {<<>>, JsonDumps(RunsDict(<<>>))}

\* no bank but b has entered save_run
OnlyWriter(b) ==
    \A o \in Banks \ {b} : nsaves[o] = 0 /\ bpc[o] \in {"unborn", "idle"}

\* C27: a save_run on a MemoryBank built over any store content, "{}" and "[]"
\* among them, raises only where the disk write fails: a save_run that has
\* raised had a record list to append to and got as far as the write; and a
\* save_run that returned leaves list_runs() as it was, followed by the record.
C27_SaveOverAnyContent ==
    \A b \in Banks :
        /\ bpc[b] = "raised" => HasRuns(data[b])
        /\ (bpc[b] = "idle" /\ nsaves[b] >= 1) =>
               /\ HasRuns(data[b])
               /\ Last(ListRuns(data[b])) = saved[b][nsaves[b]]

\* C4: when the two runs' save_run calls have all returned, in whatever
\* interleaving, the store file holds every record that was in it before and
\* every record either run saved: no update is lost.
C4_NoLostUpdate ==
    (\A b \in Banks : bpc[b] = "idle" /\ nsaves[b] >= 1)
    => /\ HasRuns(MemoryBankInit(fileExists, fileText))
       /\ \A i \in 1..Len(Prior) : InRuns(Prior[i], Reloaded)
       /\ \A b \in Banks : \A i \in 1..Len(saved[b]) : InRuns(saved[b][i], Reloaded)

\* C5: over a store that began empty or missing, after each of the n save_run
\* calls of the one bank writing to it has returned, a MemoryBank built from
\* the file lists exactly those n records, in call order.
C5_ReloadListsSaved ==
    \A b \in Banks :
        (StartedEmpty /\ OnlyWriter(b) /\ bpc[b] = "idle")
        => /\ HasRuns(MemoryBankInit(fileExists, fileText))
           /\ Reloaded = saved[b]
           /\ Len(Reloaded) = nsaves[b]

\* a bank, sole writer over a store that began empty, has saved twice
C5_Witness ==
    \E b \in Banks :
        /\ StartedEmpty /\ OnlyWriter(b) /\ bpc[b] = "idle"
        /\ nsaves[b] = 2
        /\ Reloaded = saved[b]

\* C6: at every point of save_run, a write that has begun or has failed
\* part-way included, the store file is the complete document the last
\* completed write left: a reader never finds a truncated or half-written one.
C6_FileNeverPartial ==
    \A b \in Banks :
        (bpc[b] \in {"writing", "write_raised"} /\ fileExists)
        => JsonLoads(fileText) # JSONDecodeError

\* ---------------------------------------------------------- the session
\* the run was resumed with k answers, k checkpoints and cursor k
SeededAt(k) ==
    /\ seed.index = k
    /\ seed.answers # PyNone /\ seed.checkpoints # PyNone
    /\ Len(seed.answers.items) = k
    /\ Len(seed.checkpoints.items) = k

\* the store file did not parse, or was missing, when the bank was built
StoreUnreadable == ~store0.exists \/ JsonLoads(store0.text) = JSONDecodeError

\* C20: building a MemoryBank never fails over the state of the store file:
\* over a missing file or a text that does not parse the bank is built, and
\* its list_runs() is the empty list.
C20_ConstructNeverFails ==
    bpc[1] # "unborn" =>
        /\ bpc[1] # "ctor_raised"
        /\ StoreUnreadable => ForgeListRuns(data[1]) = <<>>

\* C22: in generate_rounds' fan-out a sub-task that fails does not abort the
\* stage or the other sub-tasks, and a sub-task that never completes does not
\* leave the stage waiting with nothing left that can end the wait.
C22_FanoutSurvivesFailure ==
    /\ (\E k \in Kinds : tasks[k] = "raised") =>
           /\ spc # "raised"
           /\ \A k \in Kinds : tasks[k] # "abandoned"
    /\ (spc = "gather" /\ \E k \in Kinds : tasks[k] = "stalled") => ENABLED SessionNext

\* C7: a run resumed with k checkpoints, k answers and cursor k (k at most the
\* number of questions) asks only the questions after the k-th, and the first k
\* entries of the final transcript carry the checkpointed answers.
C7_ResumeSkipsAnswered ==
    (spc \in {"interview", "conducted"}
       /\ SeededAt(seed.index) /\ seed.index <= Len(Flatten(rounds)))
    => /\ \A i \in 1..Len(qa_pairs) : qa_pairs[i].question > seed.index
       /\ spc = "conducted"
          => /\ Len(qa_pairs) >= seed.index
             /\ \A i \in 1..seed.index :
                   qa_pairs[i].answer = seed.answers.items[i]

\* C8: in every state of a session the checkpoint list is as long as the cursor.
C8_CheckpointsMatchCursor ==
    spc # "off" => Len(checkpoints) = current_q_index

\* C9: after each answered question, seeded session or not, questions, answers
\* and cursor agree in length, and the newest checkpoint records the new cursor
\* and the cumulative lists.
C9_AnswerKeepsListsAligned ==
    (spc \in {"interview", "conducted"} /\ Len(qa_pairs) >= 1)
    => /\ Len(questions) = Len(answers)
       /\ Len(answers) = current_q_index
       /\ checkpoints[Len(checkpoints)].q_index = current_q_index
       /\ checkpoints[Len(checkpoints)].questions = questions
       /\ checkpoints[Len(checkpoints)].answers = answers

\* C10: the checkpoint list only grows: no step removes or moves a checkpoint
\* or changes the cursor, questions or answers it recorded.
C10_CheckpointsOnlyGrow ==
    [][/\ Len(checkpoints') >= Len(checkpoints)
       /\ \A i \in 1..Len(checkpoints) : checkpoints'[i] = checkpoints[i]]_vars

====
